---- MODULE Spec2Model ----
(***************************************************************************)
(* Model of gsuite-wrapper: the account registry and OAuth callback wait   *)
(* of GoogleAccountManager (src/src/mcp_gsuite/account_manager.py) and the *)
(* message parser GmailEmail (src/src/mcp_gsuite/gmail.py).                *)
(***************************************************************************)
EXTENDS Integers, Sequences, FiniteSets, TLC

VARIABLES
    accounts,       \* the "accounts" list of the accounts file, in file order
    credFiles,      \* emails whose credential file exists on disk
    callback_data,  \* OAuthCallbackHandler.callback_data (class variable)
    server,         \* the HTTPServer of _handle_oauth_callback
    pc,             \* position of the single calling thread
    waitEmail,      \* email argument of the call in progress
    inWait,         \* the call in progress is wait_for_oauth_callback
    cbReturn,       \* what _handle_oauth_callback returned: <<>> (nothing yet) or <<code, state>>
    handled,        \* requests handled by the listener bound last
    lastRequest,    \* the request the listener bound last handled: <<>> or <<request>>
    lastStatus,     \* HTTP status sent for lastRequest
    timeouts,       \* handle_request() returns by timeout, current wait
    exchanges,      \* get_credentials calls made by the call in progress / last call
    lastOp,         \* the public call that completed last, with its outcome
    justAdded,      \* the email add_account appended in the call before lastOp, else None
    lastRemove,     \* credential-file step of lastOp when it is a remove_account
    raw,            \* input of GmailEmail.from_api_response
    parsed,         \* its return value
    mpc,            \* "input" before the call, "done" after it
    bodySource,     \* operand of the `or` chain (or single-part branch) body came from
    credExpiry,     \* token expiry of the credential stored for each email
    now,            \* the clock
    refreshCalls,   \* refresh requests made by the credential call that completed last
    service,        \* credential the service built last holds: <<>> or <<credential>>
    credOp,         \* the credential call that completed last, with its outcome
    replyIn,        \* arguments of GmailService.create_reply
    apiCalls,       \* Gmail API calls create_reply executed, in order
    replyResult,    \* its return value: <<>> (None) or <<email>>
    replyLog,       \* what its except clause logged, None when nothing
    replyRaised,    \* the exception that left create_reply, None when it returned
    rpc,            \* "input" before the call, "done" after it
    tpc,            \* position of each thread inside _handle_oauth_callback
    bound,          \* threads whose HTTPServer is bound to port 8080
    tresult,        \* how each thread's last _handle_oauth_callback ended
    treturn         \* what it returned: <<>> or <<code, state>>

regVars == <<accounts, credFiles>>
oauthVars == <<callback_data, server, pc, waitEmail, inWait, cbReturn, handled,
               lastRequest, lastStatus, timeouts, exchanges>>
histVars == <<lastOp, justAdded, lastRemove>>
mimeVars == <<raw, parsed, mpc, bodySource>>
replyVars == <<replyIn, apiCalls, replyResult, replyLog, replyRaised, rpc>>
threadVars == <<tpc, bound, tresult, treturn>>
svcVars == <<credExpiry, now, refreshCalls, service, credOp, replyVars, threadVars>>
vars == <<accounts, credFiles, callback_data, server, pc, waitEmail, inWait,
          cbReturn, handled, lastRequest, lastStatus, timeouts, exchanges,
          lastOp, justAdded, lastRemove, raw, parsed, mpc, bodySource,
          credExpiry, now, refreshCalls, service, credOp,
          replyIn, apiCalls, replyResult, replyLog, replyRaised, rpc,
          tpc, bound, tresult, treturn>>

\* Python's None where the value is otherwise a string.
None == "<None>"

\* Python truthiness of an Optional[str].
Truthy(x) == x # None /\ x # ""

\* Python's `a or b`.
PyOr(a, b) == IF Truthy(a) THEN a ELSE b

(***************************************************************************)
(* Account registry                                                        *)
(***************************************************************************)
Emails == {"a@x.org", "b@x.org"}
AccountTypes == {"user", "service"}
ExtraInfos == {""}

AccountInfo(email, account_type, extra_info) ==
    [email |-> email, account_type |-> account_type, extra_info |-> extra_info]

list_accounts == accounts

EmailsOf(accs) == {accs[i].email : i \in 1..Len(accs)}

\* Mutant of get_account: no entry is ever found.
get_account_none(accs, email) == <<>>

\* get_account: the first entry with that email; an Optional is modelled as a
\* sequence, <<>> for None and <<v>> for a value.
get_account(accs, email) ==
    IF \E i \in 1..Len(accs) : accs[i].email = email
    THEN <<accs[CHOOSE i \in 1..Len(accs) :
                   /\ accs[i].email = email
                   /\ \A j \in 1..(i - 1) : accs[j].email # email]>>
    ELSE <<>>

\* Mutant of AddGuard: the existence check is dropped.
AddGuardNoCheck(accs, email) == TRUE

\* add_account line 109: the call goes on only when get_account finds nothing.
AddGuard(accs, email) == get_account(accs, email) = <<>>

\* Mutant of Appended: the new entry is not saved.
AppendedNotSaved(accs, account) == accs

\* add_account lines 112-115: append and save.
Appended(accs, account) == Append(accs, account)

\* Mutant of WithoutEmail: the filter keeps every entry.
WithoutEmailKeepsAll(accs, email) == accs

\* remove_account line 129: every entry with that email is filtered out.
WithoutEmail(accs, email) == SelectSeq(accs, LAMBDA acc : acc.email # email)

\* Mutant of CredFilesAfterRemove: the file is never deleted.
CredFilesAfterRemoveNever(files, email, removeFails) == files

\* remove_account lines 138-144: os.remove of the credential file when it
\* exists; an exception (removeFails) is logged and swallowed.
CredFilesAfterRemove(files, email, removeFails) ==
    IF email \in files /\ ~removeFails THEN files \ {email} ELSE files

Op(name, email, result) == [op |-> name, email |-> email, result |-> result]

\* History of the public calls: the call that just completed, and whether the
\* call before it was one in which add_account appended an entry.
Record(op) ==
    /\ lastOp' = op
    /\ justAdded' = IF lastOp.result = "ok" THEN lastOp.email ELSE None

\* add_account(email, account_type, extra_info)
AddAccount(email, account_type, extra_info) ==
    /\ pc = "idle"
    /\ IF AddGuard(accounts, email)
       THEN /\ accounts' = Appended(accounts, AccountInfo(email, account_type, extra_info))
            /\ Record(Op("add_account", email, "ok"))
       ELSE /\ accounts' = accounts
            /\ Record(Op("add_account", email, "already exists"))
    /\ lastRemove' = "not reached"
    /\ UNCHANGED <<credFiles, oauthVars, mimeVars, svcVars>>

\* remove_account(email); removeFails: os.remove raises.
RemoveAccount(email, removeFails) ==
    /\ pc = "idle"
    /\ LET kept == WithoutEmail(accounts, email) IN
       IF Len(kept) = Len(accounts)
       THEN /\ UNCHANGED <<accounts, credFiles>>
            /\ lastRemove' = "not reached"
            /\ Record(Op("remove_account", email, "False"))
       ELSE /\ accounts' = kept
            /\ credFiles' = CredFilesAfterRemove(credFiles, email, removeFails)
            /\ lastRemove' = IF removeFails THEN "failed"
                              ELSE IF email \in credFiles THEN "deleted" ELSE "no file"
            /\ Record(Op("remove_account", email, "True"))
    /\ UNCHANGED <<oauthVars, mimeVars, svcVars>>

(***************************************************************************)
(* OAuth callback wait                                                     *)
(***************************************************************************)
Paths == {"/", "/favicon.ico"}
Codes == {"abc"}
States == {"xyz"}
Errors == {"access_denied"}

\* A GET request as do_GET sees it after urlparse and parse_qs; parse_qs drops
\* blank values, so a parameter is either absent (None) or non-empty.
Requests ==
    [path : Paths, code : Codes \cup {None}, state : States \cup {None},
     error : Errors \cup {None}]

\* Times handle_request() may return by timeout in one wait before the model
\* stops counting.
MaxTimeouts == 2

\* Mutant of CallbackData: the error parameter is not stored.
CallbackDataNoError(req) ==
    <<[code |-> req.code, state |-> req.state, error |-> None]>>

\* OAuthCallbackHandler.do_GET lines 27-35: whatever the path, the three query
\* parameters (None when absent) are stored in the class variable.
CallbackData(req) ==
    <<[code |-> req.code, state |-> req.state, error |-> req.error]>>

\* do_GET lines 38-48: the status sent, the same for every request.
ResponseStatus(req) == 200

\* Mutant of ServerAfterRequest: the finally clause is missing.
ServerAfterRequestLeftOpen(data) == "listening"

\* _handle_oauth_callback lines 166-171: once callback_data is set the loop is
\* left, by raise or by return, and the finally clause closes the server.
ServerAfterRequest(data) == IF data # <<>> THEN "closed" ELSE "listening"

\* Mutant of CallbackReturn: a code and a state are returned whatever the
\* request carried.
CallbackReturnAlways(data) == <<"abc", "xyz">>

\* _handle_oauth_callback line 169.
CallbackReturn(data) == <<data[1].code, data[1].state>>

\* Mutant of callback_data_reset: what an earlier call captured is kept.
callback_data_kept(data) == data

\* _handle_oauth_callback line 158: the class variable is reset to None.
callback_data_reset(data) == <<>>

\* The outcome of a finished call.
Finish(name, result) ==
    /\ pc' = "idle"
    /\ lastRemove' = "not reached"
    /\ Record(Op(name, waitEmail, result))

\* wait_for_oauth_callback lines 191-195 and _handle_oauth_callback lines
\* 157-165, up to the first blocking handle_request().
WaitForOAuthCallback(email) ==
    /\ pc = "idle"
    /\ IF get_account(accounts, email) # <<>>
       THEN /\ Record(Op("wait_for_oauth_callback", email, "already exists"))
            /\ lastRemove' = "not reached"
            /\ UNCHANGED oauthVars
       ELSE /\ callback_data' = callback_data_reset(callback_data)
            /\ server' = "listening"
            /\ pc' = "waiting"
            /\ waitEmail' = email
            /\ inWait' = TRUE
            /\ cbReturn' = <<>>
            /\ handled' = 0
            /\ timeouts' = 0
            /\ exchanges' = 0
            /\ lastRequest' = <<>>
            /\ lastStatus' = 0
            /\ UNCHANGED histVars
    /\ UNCHANGED <<regVars, mimeVars, svcVars>>

\* _handle_oauth_callback lines 166-171 after handle_request() has returned,
\* data being what the class variable holds: None, and the loop goes on; else
\* the call raises or returns, the finally clause closes the server, and
\* wait_for_oauth_callback lines 196-203 and complete_account_setup lines
\* 233-237 follow, up to the blocking token exchange.
AfterHandleRequest(data) ==
    /\ server' = ServerAfterRequest(data)
    /\ IF data = <<>>
       THEN UNCHANGED <<pc, cbReturn, histVars>>
       ELSE IF Truthy(data[1].error)
       THEN /\ cbReturn' = <<>>
            /\ Finish("wait_for_oauth_callback", "OAuth error")
       ELSE /\ cbReturn' = CallbackReturn(data)
            /\ IF ~Truthy(cbReturn'[1]) \/ ~Truthy(cbReturn'[2])
               THEN Finish("wait_for_oauth_callback", "no code or state")
               ELSE IF get_account(accounts, waitEmail) # <<>>
                    THEN Finish("wait_for_oauth_callback", "already exists")
                    ELSE /\ pc' = "exchanging"
                         /\ UNCHANGED histVars

\* handle_request() returns because server.timeout expired with no request;
\* line 166 reads the class variable, None since line 158 when no request was
\* served, and the `while True` loop calls handle_request() again.
HandleTimeout ==
    /\ pc = "waiting"
    /\ timeouts < MaxTimeouts
    /\ timeouts' = timeouts + 1
    /\ AfterHandleRequest(callback_data)
    /\ UNCHANGED <<regVars, callback_data, waitEmail, inWait, handled, lastRequest,
                   lastStatus, exchanges, mimeVars, svcVars>>

\* handle_request() serves one GET (do_GET), then the lines after it.
HandleRequest(req) ==
    /\ pc = "waiting"
    /\ server = "listening"
    /\ callback_data' = CallbackData(req)
    /\ lastRequest' = <<req>>
    /\ lastStatus' = ResponseStatus(req)
    /\ handled' = handled + 1
    /\ AfterHandleRequest(CallbackData(req))
    /\ UNCHANGED <<regVars, waitEmail, inWait, timeouts, exchanges, mimeVars, svcVars>>

\* complete_account_setup(email, code, state) called directly: lines 233-237.
CompleteAccountSetup(email) ==
    /\ pc = "idle"
    /\ IF get_account(accounts, email) # <<>>
       THEN /\ Record(Op("complete_account_setup", email, "already exists"))
            /\ lastRemove' = "not reached"
            /\ UNCHANGED <<pc, waitEmail, inWait, exchanges>>
       ELSE /\ pc' = "exchanging"
            /\ waitEmail' = email
            /\ inWait' = FALSE
            /\ exchanges' = 0
            /\ UNCHANGED histVars
    /\ UNCHANGED <<regVars, callback_data, server, cbReturn, handled, lastRequest,
                   lastStatus, timeouts, mimeVars, svcVars>>

\* gauth.get_credentials on success: the credential of the account is stored.
StoreCredentials(files, email) == files \cup {email}

\* complete_account_setup lines 237-243: get_credentials returns or raises
\* (accepted), then add_account(email, "user").
ExchangeReturns(accepted) ==
    /\ pc = "exchanging"
    /\ exchanges' = exchanges + 1
    /\ LET name == IF inWait THEN "wait_for_oauth_callback"
                   ELSE "complete_account_setup" IN
       IF accepted
       THEN /\ credFiles' = StoreCredentials(credFiles, waitEmail)
            /\ IF AddGuard(accounts, waitEmail)
               THEN /\ accounts' = Appended(accounts, AccountInfo(waitEmail, "user", ""))
                    /\ Finish(name, "ok")
               ELSE /\ accounts' = accounts
                    /\ Finish(name, "already exists")
       ELSE /\ UNCHANGED regVars
            /\ Finish(name, "exchange failed")
    /\ UNCHANGED <<callback_data, server, waitEmail, inWait, cbReturn, handled,
                   lastRequest, lastStatus, timeouts, mimeVars, svcVars>>

InitRegistry ==
    /\ accounts = <<>>
    /\ credFiles = {}
    /\ callback_data = <<>>
    /\ server = "unbound"
    /\ pc = "idle"
    /\ waitEmail = None
    /\ inWait = FALSE
    /\ cbReturn = <<>>
    /\ handled = 0
    /\ lastRequest = <<>>
    /\ lastStatus = 0
    /\ timeouts = 0
    /\ exchanges = 0
    /\ lastOp = Op("none", None, None)
    /\ justAdded = None
    /\ lastRemove = "not reached"

InitMimeIdle ==
    /\ raw = <<>>
    /\ parsed = <<>>
    /\ mpc = "idle"
    /\ bodySource = None

Threads == {"t1", "t2"}

InitThreadsIdle ==
    /\ tpc = [t \in Threads |-> "idle"]
    /\ bound = {}
    /\ tresult = [t \in Threads |-> None]
    /\ treturn = [t \in Threads |-> <<>>]

InitReplyIdle ==
    /\ replyIn = <<>>
    /\ apiCalls = <<>>
    /\ replyResult = <<>>
    /\ replyLog = None
    /\ replyRaised = None
    /\ rpc = "idle"

InitServiceIdle ==
    /\ credExpiry = [email \in Emails |-> 0]
    /\ now = 0
    /\ refreshCalls = 0
    /\ service = <<>>
    /\ credOp = Op("none", None, None)
    /\ InitReplyIdle
    /\ InitThreadsIdle

Init == InitRegistry /\ InitMimeIdle /\ InitServiceIdle

Next ==
    \/ \E email \in Emails, account_type \in AccountTypes, extra_info \in ExtraInfos :
           AddAccount(email, account_type, extra_info)
    \/ \E email \in Emails, removeFails \in BOOLEAN : RemoveAccount(email, removeFails)
    \/ \E email \in Emails : WaitForOAuthCallback(email)
    \/ HandleTimeout
    \/ \E req \in Requests : HandleRequest(req)
    \/ \E email \in Emails : CompleteAccountSetup(email)
    \/ \E accepted \in BOOLEAN : ExchangeReturns(accepted)

Spec == Init /\ [][Next]_vars

(***************************************************************************)
(* Message parser: GmailEmail.from_api_response                            *)
(***************************************************************************)

\* Largest number of parts of a multipart node in the inputs.
MaxParts == 2

\* urlsafe_b64decode on the body data of the inputs: "YQ" has incorrect
\* padding and is in no domain (binascii.Error); "====" decodes to no bytes;
\* "_w==" decodes to the byte 0xff.
Base64Bytes ==
    ("YQ==" :> "a") @@ ("Yg==" :> "b") @@ ("Yw==" :> "c") @@ ("ZA==" :> "d")
    @@ ("====" :> "") @@ ("_w==" :> "\\xff")

\* bytes.decode('utf-8') raises UnicodeDecodeError on the byte 0xff.
Utf8Valid(bytes) == bytes # "\\xff"

\* Mutant of _decode_body_data: the bytes are returned without the UTF-8 check.
_decode_body_data_unchecked(data) ==
    IF Truthy(data) /\ data \in DOMAIN Base64Bytes THEN Base64Bytes[data] ELSE None

\* _decode_body_data: None for no data, and None (logged) when either decoding
\* step raises.
_decode_body_data(data) ==
    IF ~Truthy(data) THEN None
    ELSE IF data \notin DOMAIN Base64Bytes THEN None
    ELSE IF ~Utf8Valid(Base64Bytes[data]) THEN None
    ELSE Base64Bytes[data]

\* A node of the payload tree. mimeType "" : no mimeType key; data None: no
\* body.data; attachmentId None: no body.attachmentId; partId None: no partId.
Part(mimeType, data, attachmentId, partId, parts) ==
    [mimeType |-> mimeType, data |-> data, attachmentId |-> attachmentId,
     partId |-> partId, parts |-> parts]

Leaf(mimeType, data) == Part(mimeType, data, None, None, <<>>)

MultipartTypes == {"multipart/alternative", "multipart/mixed", "multipart/related"}

\* mimeType.startswith('multipart/') on the types of the inputs.
IsMultipart(mimeType) == mimeType \in MultipartTypes

SeqsUpTo(S, n) == UNION {[1..k -> S] : k \in 0..n}

TextData == {None, "YQ", "_w==", "====", "YQ==", "Yg=="}

TopLeaves ==
    {Leaf(t, d) : t \in {"text/plain", "text/html"}, d \in TextData}
    \cup {Leaf("image/png", d) : d \in {None, "Yw=="}}
    \cup {Part("application/pdf", None, "att-1", pid, <<>>) : pid \in {None, "0", "1"}}
    \cup {Part("image/png", None, "att-2", pid, <<>>) : pid \in {"0", "1"}}

NestedLeaves == {Leaf("text/plain", "Yw=="), Leaf("text/html", "ZA==")}

InnerMultiparts ==
    {Part("multipart/alternative", None, None, None, ps) :
        ps \in SeqsUpTo(NestedLeaves, MaxParts)}

DeepMultiparts ==
    {Part("multipart/mixed", None, None, None, <<Part("multipart/related", None, None, None, <<l>>)>>) :
        l \in NestedLeaves}
    \cup {Part("multipart/mixed", None, None, None,
               <<Part("multipart/related", None, None, None, <<Leaf("text/plain", "Yw==")>>),
                 Leaf("text/html", "ZA==")>>)}
    \cup {Part("multipart/mixed", None, None, None,
               <<Part("application/pdf", None, "att-3", "2", <<>>)>>)}

TopParts == TopLeaves \cup InnerMultiparts \cup DeepMultiparts

\* txt.get('payload', {}) of a message without payload.
NoPayload == Part("", None, None, None, <<>>)

Payloads ==
    {Part(t, None, None, None, ps) : t \in MultipartTypes, ps \in SeqsUpTo(TopParts, MaxParts)}
    \cup {Leaf(t, d) : t \in {"text/plain", "text/html", "image/png"}, d \in TextData}
    \cup {NoPayload}

\* A raw message: id None when the key is missing; headers is
\* payload.get('headers', []).
RawMessages ==
    {[id |-> "m1", payload |-> p, headers |-> <<>>] : p \in Payloads}
    \cup {[id |-> None, payload |-> p, headers |-> <<>>] :
              p \in {NoPayload, Leaf("text/plain", "YQ==")}}

\* Largest number of headers in the inputs.
MaxHeaders == 2

\* Header names of the inputs, None for a header without a name key.
HeaderNames ==
    {"Subject", "subject", "SUBJECT", "From", "To", "Cc", "Bcc", "Message-ID",
     "message-id", "In-Reply-To", "References", "Delivered-To", "Date", None}

\* header.get('name', '').lower() on the names of the inputs.
LowerName(name) ==
    CASE name \in {"Subject", "subject", "SUBJECT"} -> "subject"
      [] name = "From" -> "from"
      [] name = "To" -> "to"
      [] name = "Cc" -> "cc"
      [] name = "Bcc" -> "bcc"
      [] name \in {"Message-ID", "message-id"} -> "message-id"
      [] name = "In-Reply-To" -> "in-reply-to"
      [] name = "References" -> "references"
      [] name = "Delivered-To" -> "delivered-to"
      [] name = "Date" -> "date"
      [] OTHER -> ""

\* _parse_headers lines 101-112.
header_mapping ==
    ("subject" :> "subject") @@ ("from" :> "from_email") @@ ("to" :> "to_email")
    @@ ("cc" :> "cc") @@ ("bcc" :> "bcc") @@ ("message-id" :> "message_id")
    @@ ("in-reply-to" :> "in_reply_to") @@ ("references" :> "references")
    @@ ("delivered-to" :> "delivered_to")

\* A header dict; value None: no value key.
Header(name, value) == [name |-> name, value |-> value]

HeaderValues == {"v1", "v2", None}

Headers == {Header(n, v) : n \in HeaderNames, v \in HeaderValues}

\* The header fields of a GmailEmail as the dataclass defaults leave them
\* (lines 29-37).
NoHeaderFields ==
    [subject |-> None, from_email |-> None, to_email |-> None, cc |-> None,
     bcc |-> None, message_id |-> None, in_reply_to |-> None, references |-> None,
     delivered_to |-> None]

\* _parse_headers lines 115-117, one turn of the loop: setattr when the
\* lower-cased name is mapped; header.get('value', '').
SetHeader(email, header) ==
    LET name == LowerName(header.name) IN
    IF name \in DOMAIN header_mapping
    THEN [email EXCEPT ![header_mapping[name]] =
              IF header.value = None THEN "" ELSE header.value]
    ELSE email

RECURSIVE ParseHeadersFrom(_, _, _)

\* _parse_headers line 114: the loop from header i on.
ParseHeadersFrom(email, headers, i) ==
    IF i > Len(headers) THEN email
    ELSE ParseHeadersFrom(SetHeader(email, headers[i]), headers, i + 1)

_parse_headers(email, headers) == ParseHeadersFrom(email, headers, 1)

\* Inputs of the header mapping: a message with a plain body and up to
\* MaxHeaders headers.
HeaderMessages ==
    {[id |-> "m1", payload |-> Leaf("text/plain", "YQ=="), headers |-> hs] :
        hs \in SeqsUpTo(Headers, MaxHeaders)}

\* The first of the indices a scan stops at, 0 when there is none.
FirstIndex(hits) ==
    IF hits = {} THEN 0 ELSE CHOOSE i \in hits : \A j \in hits : i <= j

\* Mutant of _find_text_html_body: the scan stops at the first text/html part,
\* decodable or not.
_find_text_html_body_first(parts) ==
    LET i == FirstIndex({k \in 1..Len(parts) : parts[k].mimeType = "text/html"})
    IN IF i = 0 THEN None ELSE _decode_body_data(parts[i].data)

\* _find_text_html_body: the first text/html part whose decoded body is truthy.
_find_text_html_body(parts) ==
    LET hit(p) == p.mimeType = "text/html" /\ Truthy(_decode_body_data(p.data))
        i == FirstIndex({k \in 1..Len(parts) : hit(parts[k])})
    IN IF i = 0 THEN None ELSE _decode_body_data(parts[i].data)

\* _find_text_plain_body: the first text/plain part whose decoded body is truthy.
_find_text_plain_body(parts) ==
    LET hit(p) == p.mimeType = "text/plain" /\ Truthy(_decode_body_data(p.data))
        i == FirstIndex({k \in 1..Len(parts) : hit(parts[k])})
    IN IF i = 0 THEN None ELSE _decode_body_data(parts[i].data)

RECURSIVE _extract_nested_body(_)
RECURSIVE FindNestedFrom(_, _)

\* _find_nested_body, from part i on: the first multipart part whose
\* _extract_nested_body is truthy.
FindNestedFrom(parts, i) ==
    IF i > Len(parts) THEN None
    ELSE IF IsMultipart(parts[i].mimeType) /\ Truthy(_extract_nested_body(parts[i]))
         THEN _extract_nested_body(parts[i])
         ELSE FindNestedFrom(parts, i + 1)

_find_nested_body(parts) == FindNestedFrom(parts, 1)

\* Mutant of _extract_nested_body: html is tried before plain.
_extract_nested_body_html_first(payload) ==
    IF payload.mimeType \in {"text/plain", "text/html"}
    THEN _decode_body_data(payload.data)
    ELSE IF IsMultipart(payload.mimeType)
         THEN PyOr(_find_text_html_body(payload.parts),
                   PyOr(_find_text_plain_body(payload.parts),
                        _find_nested_body(payload.parts)))
         ELSE None

\* _extract_nested_body: plain, then html, then deeper.
_extract_nested_body(payload) ==
    IF payload.mimeType \in {"text/plain", "text/html"}
    THEN _decode_body_data(payload.data)
    ELSE IF IsMultipart(payload.mimeType)
         THEN PyOr(_find_text_plain_body(payload.parts),
                   PyOr(_find_text_html_body(payload.parts),
                        _find_nested_body(payload.parts)))
         ELSE None

\* _find_fallback_body: the decoded data of the first part, when it has data.
_find_fallback_body(parts) ==
    IF Len(parts) > 0 /\ parts[1].data # None
    THEN _decode_body_data(parts[1].data)
    ELSE None

\* Mutant of PreferHtml: no multipart type prefers HTML.
PreferHtmlNever(mimeType) == FALSE

\* _extract_and_set_body line 160.
PreferHtml(mimeType) == mimeType = "multipart/alternative"

\* _extract_and_set_body lines 161-174: the operands of the `or` chain in the
\* order they are tried, each with the name of where it comes from.
BodyChain(payload, body_html, body_plain) ==
    LET h == [source |-> "body_html", value |-> body_html]
        p == [source |-> "body_plain", value |-> body_plain]
        n == [source |-> "nested", value |-> _find_nested_body(payload.parts)]
        f == [source |-> "fallback", value |-> _find_fallback_body(payload.parts)]
    IN IF PreferHtml(payload.mimeType) THEN <<h, p, n, f>> ELSE <<p, h, n, f>>

\* Python's `a or b or c or d` on the chain: the first truthy operand, else the
\* last one.
ChainPick(chain) ==
    LET i == FirstIndex({k \in 1..Len(chain) : Truthy(chain[k].value)})
    IN IF i = 0 THEN chain[Len(chain)] ELSE chain[i]

\* _extract_and_set_body lines 176-183: mime_type by comparing the value of
\* body with body_html, then with body_plain.
MultipartMimeType(payload, body, body_html, body_plain) ==
    IF ~Truthy(body) THEN None
    ELSE IF body = body_html THEN "text/html"
    ELSE IF body = body_plain THEN "text/plain"
    ELSE payload.mimeType

\* The body fields _extract_and_set_body leaves on the email, with the operand
\* body was taken from.
_extract_and_set_body(payload) ==
    IF payload.mimeType = "text/plain"
    THEN LET b == _decode_body_data(payload.data) IN
         [body_html |-> None, body_plain |-> b, body |-> b,
          mime_type |-> "text/plain", source |-> "body_plain"]
    ELSE IF payload.mimeType = "text/html"
    THEN LET b == _decode_body_data(payload.data) IN
         [body_html |-> b, body_plain |-> None, body |-> b,
          mime_type |-> "text/html", source |-> "body_html"]
    ELSE IF IsMultipart(payload.mimeType)
    THEN LET body_html == _find_text_html_body(payload.parts)
             body_plain == _find_text_plain_body(payload.parts)
             pick == ChainPick(BodyChain(payload, body_html, body_plain))
         IN [body_html |-> body_html, body_plain |-> body_plain, body |-> pick.value,
             mime_type |-> MultipartMimeType(payload, pick.value, body_html, body_plain),
             source |-> pick.source]
    ELSE [body_html |-> None, body_plain |-> None, body |-> None,
          mime_type |-> None, source |-> None]

IsAttachment(part) == part.attachmentId # None

\* _extract_attachments_from_payload raises KeyError: an immediate child has
\* body.attachmentId and no partId.
AttachmentsRaise(payload) ==
    \E i \in 1..Len(payload.parts) :
        IsAttachment(payload.parts[i]) /\ payload.parts[i].partId = None

\* Mutant of _extract_attachments_from_payload: an earlier child with the same
\* partId is kept.
_extract_attachments_first_kept(payload) ==
    LET idx == {i \in 1..Len(payload.parts) : IsAttachment(payload.parts[i])}
        ids == {payload.parts[i].partId : i \in idx}
        first(pid) == CHOOSE i \in idx :
                         /\ payload.parts[i].partId = pid
                         /\ \A j \in idx : payload.parts[j].partId = pid => i <= j
    IN [pid \in ids |->
           [mime_type |-> payload.parts[first(pid)].mimeType,
            attachment_id |-> payload.parts[first(pid)].attachmentId,
            part_id |-> pid]]

\* _extract_attachments_from_payload: the dict part_id -> GmailAttachment over
\* the immediate children; a later child with the same partId overwrites.
_extract_attachments_from_payload(payload) ==
    LET idx == {i \in 1..Len(payload.parts) : IsAttachment(payload.parts[i])}
        ids == {payload.parts[i].partId : i \in idx}
        last(pid) == CHOOSE i \in idx :
                        /\ payload.parts[i].partId = pid
                        /\ \A j \in idx : payload.parts[j].partId = pid => j <= i
    IN [pid \in ids |->
           [mime_type |-> payload.parts[last(pid)].mimeType,
            attachment_id |-> payload.parts[last(pid)].attachmentId,
            part_id |-> pid]]

\* from_api_response: <<>> for None (an exception was caught), <<email>> else.
from_api_response(txt) ==
    IF AttachmentsRaise(txt.payload) THEN <<>>
    ELSE LET b == _extract_and_set_body(txt.payload) IN
         <<[id |-> txt.id,
            attachments |-> _extract_attachments_from_payload(txt.payload),
            body_html |-> b.body_html, body_plain |-> b.body_plain,
            body |-> b.body, mime_type |-> b.mime_type]
           @@ _parse_headers(NoHeaderFields, txt.headers)>>

\* GmailEmail.from_api_response(raw)
FromApiResponse ==
    /\ mpc = "input"
    /\ parsed' = from_api_response(raw)
    /\ bodySource' = IF from_api_response(raw) = <<>> THEN None
                     ELSE _extract_and_set_body(raw.payload).source
    /\ mpc' = "done"
    /\ UNCHANGED <<raw, regVars, oauthVars, histVars, svcVars>>

InitMime ==
    /\ InitRegistry
    /\ InitServiceIdle
    /\ raw \in RawMessages
    /\ parsed = <<>>
    /\ mpc = "input"
    /\ bodySource = None

NextMime == FromApiResponse

SpecMime == InitMime /\ [][NextMime]_vars

InitHeaders ==
    /\ InitRegistry
    /\ InitServiceIdle
    /\ raw \in HeaderMessages
    /\ parsed = <<>>
    /\ mpc = "input"
    /\ bodySource = None

SpecHeaders == InitHeaders /\ [][NextMime]_vars

(***************************************************************************)
(* Stored credentials: gauth (Credential Store, ensure_fresh) and the      *)
(* service constructors that load them                                     *)
(***************************************************************************)

\* Last instant of the clock.
MaxTime == 3

\* gauth.get_stored_credentials: the credential of the per-user file, <<>>
\* when there is no file.
get_stored_credentials(files, expiry, user_id) ==
    IF user_id \in files
    THEN <<[user_id |-> user_id, token_expiry |-> expiry[user_id]]>>
    ELSE <<>>

\* A credential is expired once the clock has reached its expiry.
Expired(credential, t) == credential.token_expiry <= t

\* The clock advances.
Tick ==
    /\ now < MaxTime
    /\ now' = now + 1
    /\ UNCHANGED <<regVars, oauthVars, histVars, mimeVars, credExpiry, refreshCalls,
                   service, credOp, replyVars, threadVars>>

\* ensure_fresh(user_id): load, refresh when expired, persist. refreshOk: the
\* provider accepts the refresh token; newExpiry: the expiry it grants.
EnsureFresh(user_id, refreshOk, newExpiry) ==
    /\ LET credentials == get_stored_credentials(credFiles, credExpiry, user_id) IN
       IF credentials = <<>>
       THEN /\ refreshCalls' = 0
            /\ credExpiry' = credExpiry
            /\ credOp' = Op("ensure_fresh", user_id, "no credentials")
       ELSE IF Expired(credentials[1], now)
       THEN /\ refreshCalls' = 1
            /\ IF refreshOk
               THEN /\ credExpiry' = [credExpiry EXCEPT ![user_id] = newExpiry]
                    /\ credOp' = Op("ensure_fresh", user_id, "ok")
               ELSE /\ credExpiry' = credExpiry
                    /\ credOp' = Op("ensure_fresh", user_id, "refresh failed")
       ELSE /\ refreshCalls' = 0
            /\ credExpiry' = credExpiry
            /\ credOp' = Op("ensure_fresh", user_id, "ok")
    /\ UNCHANGED <<regVars, oauthVars, histVars, mimeVars, now, service, replyVars,
                   threadVars>>

\* Mutant of NoCredentials: the check is dropped.
NoCredentialsUnchecked(credentials) == FALSE

\* GmailService.__init__ line 262, AnalyticsService.__init__ line 19:
\* `if not credentials`.
NoCredentials(credentials) == credentials = <<>>

ServiceNames == {"GmailService", "AnalyticsService"}

\* GmailService(user_id) / AnalyticsService(user_id): the stored credential is
\* loaded; without one RuntimeError is raised, else the service is built on it.
ServiceInit(name, user_id) ==
    /\ LET credentials == get_stored_credentials(credFiles, credExpiry, user_id) IN
       IF NoCredentials(credentials)
       THEN /\ service' = <<>>
            /\ credOp' = Op(name, user_id, "No OAuth2 credentials stored")
       ELSE /\ service' = credentials
            /\ credOp' = Op(name, user_id, "ok")
    /\ refreshCalls' = 0
    /\ UNCHANGED <<regVars, oauthVars, histVars, mimeVars, credExpiry, now, replyVars,
                   threadVars>>

InitCred ==
    /\ accounts = <<>>
    /\ credFiles \in SUBSET Emails
    /\ callback_data = <<>>
    /\ server = "unbound"
    /\ pc = "idle"
    /\ waitEmail = None
    /\ inWait = FALSE
    /\ cbReturn = <<>>
    /\ handled = 0
    /\ lastRequest = <<>>
    /\ lastStatus = 0
    /\ timeouts = 0
    /\ exchanges = 0
    /\ lastOp = Op("none", None, None)
    /\ justAdded = None
    /\ lastRemove = "not reached"
    /\ InitMimeIdle
    /\ credExpiry \in [Emails -> 0..MaxTime]
    /\ now = 0
    /\ refreshCalls = 0
    /\ service = <<>>
    /\ credOp = Op("none", None, None)
    /\ InitReplyIdle
    /\ InitThreadsIdle

NextCred ==
    \/ Tick
    \/ \E user_id \in Emails, refreshOk \in BOOLEAN, newExpiry \in (now + 1)..(MaxTime + 1) :
           EnsureFresh(user_id, refreshOk, newExpiry)
    \/ \E name \in ServiceNames, user_id \in Emails : ServiceInit(name, user_id)

SpecCred == InitCred /\ [][NextCred]_vars

(***************************************************************************)
(* Reply builder: GmailService.create_reply                                *)
(***************************************************************************)

\* Longest subject and longest body of the inputs, in characters.
MaxSubjectLen == 3
MaxBodyLen == 3

\* Texts the code takes apart (subject, body) are sequences of characters;
\* texts it only copies are strings.
SubjectChars == {"r", "R", "e", "E", ":", "x"}
BodyChars == {"a", "\n"}

\* Mutant of LowerChar: the letter case is kept.
LowerCharKept(c) == c

\* str.lower() on one character of the inputs.
LowerChar(c) ==
    CASE c = "R" -> "r"
      [] c = "E" -> "e"
      [] OTHER -> c

Lower(text) == [i \in 1..Len(text) |-> LowerChar(text[i])]

\* str.startswith
StartsWith(text, prefix) ==
    /\ Len(text) >= Len(prefix)
    /\ SubSeq(text, 1, Len(prefix)) = prefix

\* `x or ''` for an Optional text: <<>> is None, <<text>> a text.
OrEmpty(text) == IF text = <<>> THEN <<>> ELSE text[1]

\* create_reply lines 448-450.
ReplySubject(subject) ==
    IF ~StartsWith(Lower(OrEmpty(subject)), <<"r", "e", ":">>)
    THEN <<"R", "e", ":", " ">> \o OrEmpty(subject)
    ELSE OrEmpty(subject)

\* GmailEmail.date, lines 44-57, as the f-string prints it: the epoch when
\* _internal_date does not convert.
DateOf(internal_date) ==
    IF internal_date = None THEN "1970-01-01 00:00:00" ELSE "1970-01-01 00:00:01"

RECURSIVE ReplaceNewlines(_)

\* Mutant of ReplaceNewlines: the lines after the first get no prefix.
ReplaceNewlinesNowhere(text) == text

\* original_body.replace('\n', '\n> '), line 459.
ReplaceNewlines(text) ==
    IF text = <<>> THEN <<>>
    ELSE IF Head(text) = "\n" THEN <<"\n", "> ">> \o ReplaceNewlines(Tail(text))
    ELSE <<Head(text)>> \o ReplaceNewlines(Tail(text))

\* create_reply lines 452-460.
full_reply_body(original_message, reply_body) ==
    LET original_date == DateOf(original_message.internal_date)
        original_from == IF Truthy(original_message.from_email)
                         THEN original_message.from_email ELSE ""
        original_body == OrEmpty(original_message.body)
    IN <<reply_body, "\n", "\n", "On ", original_date, ", ", original_from, " wrote:",
         "\n", "> ">>
       \o (IF original_body # <<>> THEN ReplaceNewlines(original_body)
           ELSE <<"[No message body]">>)

RECURSIVE CommaJoin(_)

\* ','.join(cc), line 466.
CommaJoin(cc) ==
    IF Len(cc) = 0 THEN <<>>
    ELSE IF Len(cc) = 1 THEN <<cc[1]>>
    ELSE <<cc[1], ",">> \o CommaJoin(Tail(cc))

\* create_reply lines 462-469: the MIME message; cc <<>> when the header is
\* not set.
mime_message(original_message, reply_body, cc) ==
    [text |-> full_reply_body(original_message, reply_body),
     to |-> original_message.from_email,
     subject |-> ReplySubject(original_message.subject),
     cc |-> CommaJoin(cc),
     in_reply_to |-> original_message.id,
     references |-> original_message.id]

\* base64.urlsafe_b64encode(mime_message.as_bytes()).decode('utf-8')
urlsafe_b64encode(message) == [base64url |-> message]

\* create_reply lines 473-476.
message_body(original_message, reply_body, cc) ==
    [raw |-> urlsafe_b64encode(mime_message(original_message, reply_body, cc)),
     threadId |-> original_message.thread_id]

\* The original messages of the inputs: one family varies the subject, the
\* other the body, the sender and the identifiers.
Subjects == {<<>>} \cup {<<text>> : text \in SeqsUpTo(SubjectChars, MaxSubjectLen)}
Bodies == {<<>>} \cup {<<text>> : text \in SeqsUpTo(BodyChars, MaxBodyLen)}

Original(id, thread_id, internal_date, subject, from_email, body) ==
    [id |-> id, thread_id |-> thread_id, internal_date |-> internal_date,
     subject |-> subject, from_email |-> from_email, body |-> body]

Originals ==
    {Original("m1", "t1", "1000", subject, "s@x.org", <<<<"a">>>>) : subject \in Subjects}
    \cup {Original(id, thread_id, internal_date, <<<<"x">>>>, from_email, body) :
             id \in {"m1", None}, thread_id \in {"t1", None},
             internal_date \in {"1000", None},
             from_email \in {"s@x.org", "", None}, body \in Bodies}

CcLists == {<<>>, <<"c@x.org">>, <<"c@x.org", "d@x.org">>}

ReplyInputs ==
    [original_message : Originals, reply_body : {"thanks"}, send : BOOLEAN,
     cc : CcLists]

\* The message a successful API call answers with.
AnsweredMessage == [id |-> "m9", payload |-> Leaf("text/plain", "YQ=="), headers |-> <<>>]

\* What execute() does: raises, returns nothing, or returns a result holding
\* the message or not.
ApiResponses ==
    {[kind |-> "raises", message |-> <<>>], [kind |-> "none", message |-> <<>>],
     [kind |-> "result", message |-> <<>>], [kind |-> "result", message |-> <<AnsweredMessage>>]}

\* Mutant of MissingSender: only None counts as missing.
MissingSenderOnlyNone(to_address) == to_address = None

\* create_reply line 445: `if not to_address`.
MissingSender(to_address) == ~Truthy(to_address)

\* Mutant of ApiCall: the reply is always saved as a draft.
ApiCallAlwaysDraft(send, body) ==
    [api |-> "users.drafts.create", message_body |-> body, wrapped |-> TRUE]

\* create_reply lines 478-491: the call the send flag selects; a draft wraps
\* the body as {'message': message_body}.
ApiCall(send, body) ==
    IF send
    THEN [api |-> "users.messages.send", message_body |-> body, wrapped |-> FALSE]
    ELSE [api |-> "users.drafts.create", message_body |-> body, wrapped |-> TRUE]

\* create_reply lines 493-498: the result parsed into a GmailEmail.
ParsedResult(response) ==
    IF response.kind # "result" THEN <<>>
    ELSE IF response.message = <<>>
         THEN from_api_response([id |-> None, payload |-> NoPayload, headers |-> <<>>])
         ELSE from_api_response(response.message[1])

\* create_reply(original_message, reply_body, send, cc); response: what the
\* API call does. The ValueError of line 446 and whatever execute() raises are
\* caught at lines 500-503, logged, and None is returned: nothing is raised.
CreateReply(response) ==
    /\ rpc = "input"
    /\ rpc' = "done"
    /\ replyRaised' = None
    /\ IF MissingSender(replyIn.original_message.from_email)
       THEN /\ apiCalls' = <<>>
            /\ replyResult' = <<>>
            /\ replyLog' = "Could not determine original sender's address"
       ELSE /\ apiCalls' = <<ApiCall(replyIn.send,
                                     message_body(replyIn.original_message,
                                                  replyIn.reply_body, replyIn.cc))>>
            /\ replyResult' = ParsedResult(response)
            /\ replyLog' = IF response.kind = "raises" THEN "HttpError" ELSE None
    /\ UNCHANGED <<regVars, oauthVars, histVars, mimeVars, credExpiry, now,
                   refreshCalls, service, credOp, replyIn, threadVars>>

InitReply ==
    /\ InitRegistry
    /\ InitMimeIdle
    /\ credExpiry = [email \in Emails |-> 0]
    /\ now = 0
    /\ refreshCalls = 0
    /\ service = <<>>
    /\ credOp = Op("none", None, None)
    /\ replyIn \in ReplyInputs
    /\ apiCalls = <<>>
    /\ replyResult = <<>>
    /\ replyLog = None
    /\ replyRaised = None
    /\ rpc = "input"
    /\ InitThreadsIdle

NextReply == \E response \in ApiResponses : CreateReply(response)

SpecReply == InitReply /\ [][NextReply]_vars

(***************************************************************************)
(* _handle_oauth_callback called from more than one thread: the steps of   *)
(* one call, interleaved. callback_data is a class variable, shared by the *)
(* threads; each call has its own HTTPServer.                              *)
(***************************************************************************)

\* What the stepping threads leave alone.
otherVars ==
    <<regVars, server, pc, waitEmail, inWait, cbReturn, handled, lastRequest,
      lastStatus, timeouts, exchanges, histVars, mimeVars, credExpiry, now,
      refreshCalls, service, credOp, replyVars>>

\* Line 158: the call starts by resetting the class variable.
ResetCallbackData(t) ==
    /\ tpc[t] \in {"idle", "done"}
    /\ callback_data' = callback_data_reset(callback_data)
    /\ tpc' = [tpc EXCEPT ![t] = "reset"]
    /\ tresult' = [tresult EXCEPT ![t] = None]
    /\ treturn' = [treturn EXCEPT ![t] = <<>>]
    /\ UNCHANGED <<bound, otherVars>>

\* HTTPServer(('localhost', 8080), ...) can bind when no other server holds
\* the port.
PortFree(servers) == servers = {}

\* Lines 160-161: the server is bound; when the port is taken the constructor
\* raises OSError (address already in use) before the try block.
BindServer(t) ==
    /\ tpc[t] = "reset"
    /\ IF PortFree(bound)
       THEN /\ bound' = bound \cup {t}
            /\ tpc' = [tpc EXCEPT ![t] = "waiting"]
            /\ UNCHANGED tresult
       ELSE /\ bound' = bound
            /\ tpc' = [tpc EXCEPT ![t] = "done"]
            /\ tresult' = [tresult EXCEPT ![t] = "Address already in use"]
    /\ UNCHANGED <<callback_data, treturn, otherVars>>

\* Line 165: handle_request() serves one GET; do_GET stores the parameters.
ServeRequest(t, req) ==
    /\ tpc[t] = "waiting"
    /\ callback_data' = CallbackData(req)
    /\ tpc' = [tpc EXCEPT ![t] = "handled"]
    /\ UNCHANGED <<bound, tresult, treturn, otherVars>>

\* Line 165: handle_request() returns by timeout.
ServeTimeout(t) ==
    /\ tpc[t] = "waiting"
    /\ tpc' = [tpc EXCEPT ![t] = "handled"]
    /\ UNCHANGED <<callback_data, bound, tresult, treturn, otherVars>>

\* Lines 166-171: the class variable is read; when set, the call raises or
\* returns and the finally clause closes the server, else the loop goes on.
CheckCallbackData(t) ==
    /\ tpc[t] = "handled"
    /\ IF callback_data # <<>>
       THEN /\ bound' = bound \ {t}
            /\ tpc' = [tpc EXCEPT ![t] = "done"]
            /\ IF Truthy(callback_data[1].error)
               THEN /\ tresult' = [tresult EXCEPT ![t] = "OAuth error"]
                    /\ UNCHANGED treturn
               ELSE /\ tresult' = [tresult EXCEPT ![t] = "returned"]
                    /\ treturn' = [treturn EXCEPT ![t] = CallbackReturn(callback_data)]
       ELSE /\ tpc' = [tpc EXCEPT ![t] = "waiting"]
            /\ UNCHANGED <<bound, tresult, treturn>>
    /\ UNCHANGED <<callback_data, otherVars>>

NextThreads ==
    \E t \in Threads :
        \/ ResetCallbackData(t)
        \/ BindServer(t)
        \/ \E req \in Requests : ServeRequest(t, req)
        \/ ServeTimeout(t)
        \/ CheckCallbackData(t)

SpecThreads == Init /\ [][NextThreads]_vars

(***************************************************************************)
(* Claims about the account registry                                       *)
(***************************************************************************)

\* remove_account(A) has just returned and the call completed before it was one
\* in which add_account appended A.
AddedThenRemoved ==
    /\ lastOp.op = "remove_account"
    /\ justAdded = lastOp.email

\* C1 as stated: after add_account(A) succeeded and remove_account(A) was then
\* called, list_accounts() has no entry with email A and no credential file
\* for A exists.
C1_AddThenRemove_AsStated ==
    AddedThenRemoved =>
        /\ lastOp.email \notin EmailsOf(list_accounts)
        /\ lastOp.email \notin credFiles

\* C1 amended: after add_account(A) succeeded and remove_account(A) was then
\* called, list_accounts() has no entry with email A, and a credential file
\* for A exists only if deleting it raised (the failure is logged and the
\* removal still returns True).
C1_AddThenRemove ==
    AddedThenRemoved =>
        /\ lastOp.email \notin EmailsOf(list_accounts)
        /\ lastOp.result = "True"
        /\ (lastOp.email \in credFiles => lastRemove = "failed")

C1_Witness ==
    /\ AddedThenRemoved
    /\ lastRemove = "deleted"
    /\ lastOp.email \notin credFiles
    /\ lastOp.email \notin EmailsOf(list_accounts)

\* C2: add_account(email, ...) called when the registry already holds an entry
\* with that email fails with "already exists" and leaves the registry as it
\* was: same entries, same count, same order.
C2_DuplicateAddRejected ==
    [][\A email \in Emails, account_type \in AccountTypes, extra_info \in ExtraInfos :
          (/\ email \in EmailsOf(accounts)
           /\ AddAccount(email, account_type, extra_info))
          => /\ accounts' = accounts
             /\ lastOp' = Op("add_account", email, "already exists")]_vars

C2_Witness ==
    /\ lastOp.op = "add_account"
    /\ lastOp.result = "already exists"
    /\ lastOp.email \in EmailsOf(accounts)

(***************************************************************************)
(* Claims about the callback wait                                          *)
(***************************************************************************)

\* A callback that carries a code and a state and reports no error.
SuccessfulCallback(req) ==
    /\ req.path = "/"
    /\ Truthy(req.code)
    /\ Truthy(req.state)
    /\ ~Truthy(req.error)

\* C3: a GET to the root path with code=c and state=s (and no error) makes the
\* callback wait return (c, s); it is the only request that listener handles
\* and the listener is closed after it.
C3_OneSuccessfulCallback ==
    (lastRequest # <<>> /\ SuccessfulCallback(lastRequest[1])) =>
        /\ cbReturn = <<lastRequest[1].code, lastRequest[1].state>>
        /\ server = "closed"
        /\ handled = 1
        /\ pc # "waiting"

C3_Witness ==
    /\ lastRequest # <<>>
    /\ SuccessfulCallback(lastRequest[1])
    /\ cbReturn = <<"abc", "xyz">>
    /\ server = "closed"

\* A request the listener is to turn away without ending the wait: any
\* non-root path, or the root path with neither code nor error.
TurnedAway(req) ==
    \/ req.path # "/"
    \/ (req.path = "/" /\ ~Truthy(req.code) /\ ~Truthy(req.error))

\* C4: while the listener waits, a GET to a non-root path is answered 404 and
\* a GET to the root path without code (and without error) is answered 400; no
\* code is captured, the wait neither returns nor fails, and the listener
\* keeps waiting.
C4_BadRequestKeepsWaiting ==
    [][\A req \in Requests :
          (TurnedAway(req) /\ HandleRequest(req))
          => /\ lastStatus' = (IF req.path # "/" THEN 404 ELSE 400)
             /\ cbReturn' = <<>>
             /\ pc' = "waiting"
             /\ server' = "listening"
             /\ lastOp' = lastOp]_vars

C6_TimeoutEndsWait ==
    [][HandleTimeout
          => /\ pc' = "idle"
             /\ server' = "closed"
             /\ lastOp' = Op("wait_for_oauth_callback", waitEmail, "callback timeout")]_vars

\* C11: complete_account_setup(email, code, state) for an email not yet in
\* the registry: when the token exchange succeeds the credential has been
\* stored and the registry then holds an entry for that email; when the
\* provider rejects the code the call fails with the token-exchange failure
\* raised to the caller, and neither the registry nor the credential files
\* change.
C11_CompleteAccountSetup ==
    [][\A accepted \in BOOLEAN :
          (/\ ~inWait
           /\ waitEmail \notin EmailsOf(accounts)
           /\ ExchangeReturns(accepted))
          => IF accepted
             THEN /\ waitEmail \in credFiles'
                  /\ waitEmail \in EmailsOf(accounts')
                  /\ get_account(accounts', waitEmail) = <<AccountInfo(waitEmail, "user", "")>>
                  /\ lastOp' = Op("complete_account_setup", waitEmail, "ok")
             ELSE /\ lastOp' = Op("complete_account_setup", waitEmail, "exchange failed")
                  /\ accounts' = accounts
                  /\ credFiles' = credFiles]_vars

C11_Witness ==
    /\ lastOp.op = "complete_account_setup"
    /\ lastOp.result = "ok"
    /\ exchanges = 1
    /\ lastOp.email \in credFiles
    /\ lastOp.email \in EmailsOf(accounts)

\* C19: remove_account(email) returns True exactly when the registry held an
\* entry with that email, and then the entry is gone; when deleting the
\* credential file fails the call still returns True with the entry removed,
\* the file staying as it was.
C19_RemoveIsBestEffort ==
    [][\A email \in Emails, removeFails \in BOOLEAN :
          RemoveAccount(email, removeFails) =>
              /\ lastOp'.op = "remove_account"
              /\ lastOp'.result \in {"True", "False"}
              /\ (lastOp'.result = "True") <=> (email \in EmailsOf(accounts))
              /\ email \notin EmailsOf(accounts')
              /\ (email \in EmailsOf(accounts) /\ removeFails) =>
                     /\ lastOp'.result = "True"
                     /\ credFiles' = credFiles]_vars

C19_Witness ==
    /\ lastOp.op = "remove_account"
    /\ lastOp.result = "True"
    /\ lastRemove = "failed"
    /\ lastOp.email \in credFiles
    /\ lastOp.email \notin EmailsOf(accounts)

\* C21: email is a unique key of the registry: whatever add_account,
\* remove_account and complete_account_setup calls were made from the empty
\* registry, no two entries have the same email.
C21_EmailIsUniqueKey ==
    \A i \in 1..Len(accounts), j \in 1..Len(accounts) :
        accounts[i].email = accounts[j].email => i = j

C21_Witness ==
    /\ Len(accounts) = 2
    /\ accounts[1].email # accounts[2].email
    /\ lastOp.op = "add_account"
    /\ lastOp.result = "already exists"
    /\ justAdded = None

\* Where the authorization attempt made by wait_for_oauth_callback stands.
\* "Direct" is complete_account_setup called by itself, with a code the caller
\* supplies; "NotStarted" is no attempt made by the last call.
Phase ==
    IF pc = "waiting" THEN "AwaitingRedirect"
    ELSE IF pc = "exchanging" THEN (IF inWait THEN "CodeReceived" ELSE "Direct")
    ELSE IF lastOp.op # "wait_for_oauth_callback" THEN "NotStarted"
    ELSE IF lastOp.result = "ok" THEN "TokenExchanged"
    ELSE "Failed"

Terminal == {"TokenExchanged", "Failed"}

\* The steps of the state machine; from a terminal phase only another call
\* goes on, which is a new attempt or none.
PhaseSteps ==
    [NotStarted |-> {"NotStarted", "AwaitingRedirect", "Failed", "Direct"},
     Direct |-> {"NotStarted"},
     AwaitingRedirect |-> {"AwaitingRedirect", "CodeReceived", "Failed"},
     CodeReceived |-> {"TokenExchanged", "Failed"},
     TokenExchanged |-> {"NotStarted", "AwaitingRedirect", "Failed", "Direct"},
     Failed |-> {"NotStarted", "AwaitingRedirect", "Failed", "Direct"}]

\* C22: an authorization attempt goes NotStarted, AwaitingRedirect,
\* CodeReceived, TokenExchanged, or ends in Failed; the token exchange is
\* attempted only in CodeReceived, with the code and state of the request the
\* wait received, and at most once; once the attempt is TokenExchanged or
\* Failed its listener is closed and nothing of it goes on: whatever happens
\* next is another call.
C22_AttemptStateMachine ==
    [][/\ Phase' \in PhaseSteps[Phase]
       /\ (inWait' /\ exchanges' # exchanges /\ exchanges' > 0) =>
              /\ Phase = "CodeReceived"
              /\ exchanges' = 1
              /\ lastRequest # <<>>
              /\ Truthy(lastRequest[1].code)
              /\ cbReturn = <<lastRequest[1].code, lastRequest[1].state>>
       /\ Phase' = "CodeReceived" =>
              /\ lastRequest' # <<>>
              /\ Truthy(lastRequest'[1].code)
              /\ cbReturn' = <<lastRequest'[1].code, lastRequest'[1].state>>
       /\ Phase' \in Terminal => (server' # "listening" /\ pc' = "idle")
       /\ (Phase \in Terminal /\ Phase' \in Terminal) =>
              (lastOp'.op = "wait_for_oauth_callback" /\ exchanges' = exchanges)]_vars

C22_Witness ==
    /\ Phase = "TokenExchanged"
    /\ exchanges = 1
    /\ server = "closed"
    /\ cbReturn = <<"abc", "xyz">>
    /\ lastOp.email \in EmailsOf(accounts)

OAuthOps == {"wait_for_oauth_callback", "complete_account_setup"}

\* C28: on the OAuth setup path the registry changes only by the append that
\* follows a successful token exchange: every step of a
\* wait_for_oauth_callback or complete_account_setup call that fails, for
\* whatever reason, leaves the registry as it was; and a call for an email
\* that is already registered fails at once, with no listener bound, no
\* request handled and no exchange made, a listener being bound and an
\* exchange being started only for an email that is not registered.
C28_RegisteredOnlyAfterExchange ==
    [][/\ (pc # "idle" \/ pc' # "idle" \/ lastOp'.op \in OAuthOps) =>
              /\ accounts' # accounts =>
                    /\ pc = "exchanging"
                    /\ exchanges' = exchanges + 1
                    /\ lastOp'.result = "ok"
                    /\ accounts' = Append(accounts, AccountInfo(waitEmail, "user", ""))
              /\ (pc' = "idle" /\ lastOp'.result # "ok") => accounts' = accounts
       /\ (pc = "idle" /\ pc' = "idle" /\ lastOp'.op \in OAuthOps) =>
              /\ lastOp'.result = "already exists"
              /\ lastOp'.email \in EmailsOf(accounts)
              /\ UNCHANGED <<accounts, server, callback_data, handled, lastRequest,
                             exchanges, credFiles>>
       /\ (pc = "idle" /\ pc' # "idle") => waitEmail' \notin EmailsOf(accounts)
       /\ (pc' = "idle" /\ lastOp'.op \in OAuthOps /\ lastOp'.result = "already exists") =>
              pc = "idle"]_vars

C28_Witness ==
    /\ pc = "idle"
    /\ lastOp.op = "wait_for_oauth_callback"
    /\ lastOp.result = "exchange failed"
    /\ exchanges = 1
    /\ Len(accounts) = 1
    /\ lastOp.email \notin EmailsOf(accounts)

\* The other case of C28: the email was already registered.
C28_AlreadyRegisteredWitness ==
    /\ pc = "idle"
    /\ lastOp.op = "wait_for_oauth_callback"
    /\ lastOp.result = "already exists"
    /\ lastOp.email \in EmailsOf(accounts)
    /\ server = "unbound"

\* The wait has handed over what it captured: it returned a code and a
\* state, or raised for the error or for the missing code or state.
WaitGaveData ==
    \/ pc = "exchanging" /\ inWait
    \/ /\ pc = "idle"
       /\ lastOp.op = "wait_for_oauth_callback"
       /\ lastOp.result \in {"ok", "exchange failed", "OAuth error", "no code or state"}

\* C29: captured callback data does not pass from one wait to the next: a
\* wait starts with no captured data, and whatever code, state or error a wait
\* returns or raises is that of a request its own listener served during that
\* wait.
C29_NoLeakBetweenWaits ==
    /\ (pc = "waiting" /\ handled = 0) => (callback_data = <<>> /\ cbReturn = <<>>)
    /\ WaitGaveData =>
          /\ handled >= 1
          /\ lastRequest # <<>>
          /\ callback_data = <<[code |-> lastRequest[1].code,
                                state |-> lastRequest[1].state,
                                error |-> lastRequest[1].error]>>
          /\ cbReturn # <<>> =>
                cbReturn = <<lastRequest[1].code, lastRequest[1].state>>
          /\ (lastOp.result = "OAuth error" /\ pc = "idle") =>
                Truthy(lastRequest[1].error)

\* A second wait, started after a wait that captured a code, has timed out
\* once and still holds nothing.
C29_Witness ==
    /\ pc = "waiting"
    /\ timeouts = 1
    /\ handled = 0
    /\ callback_data = <<>>
    /\ lastOp.op = "wait_for_oauth_callback"
    /\ lastOp.result = "exchange failed"

\* Some thread other than t holds the port: its wait is active.
OtherWaitActive(t) == \E u \in Threads \ {t} : u \in bound

\* C20: at no time are two listeners bound to the port; a callback wait
\* started while another is active fails with the port-in-use error, and none
\* of its steps changes anything of the active wait: not the callback data the
\* active wait reads, not its position, not its server.
C20_OneListenerAtATime ==
    [][/\ Cardinality(bound') <= 1
       /\ \A t \in Threads :
             (OtherWaitActive(t) /\ (ResetCallbackData(t) \/ BindServer(t))) =>
                 /\ callback_data' = callback_data
                 /\ bound' = bound
                 /\ \A u \in Threads \ {t} : tpc'[u] = tpc[u]
                 /\ BindServer(t) => tresult'[t] = "Address already in use"]_vars

(***************************************************************************)
(* Claims about stored credentials                                         *)
(***************************************************************************)

EncodedText ==
    ("YQ==" :> "a") @@ ("Yg==" :> "b") @@ ("Yw==" :> "c") @@ ("ZA==" :> "d")

\* Body data that cannot be decoded: malformed base64url or invalid UTF-8.
Undecodable(data) == data \in {"YQ", "_w=="}

\* A child of the given type that decodes to a text.
DecodableChild(part, type) ==
    /\ part.mimeType = type
    /\ part.data \in DOMAIN EncodedText

HasDecodableChild(payload, type) ==
    \E i \in 1..Len(payload.parts) : DecodableChild(payload.parts[i], type)

\* The text of the first decodable child of that type.
FirstChildText(payload, type) ==
    LET i == CHOOSE k \in 1..Len(payload.parts) :
                 /\ DecodableChild(payload.parts[k], type)
                 /\ \A j \in 1..(k - 1) : ~DecodableChild(payload.parts[j], type)
    IN EncodedText[payload.parts[i].data]

HtmlAndPlainChildren ==
    /\ mpc = "done"
    /\ parsed # <<>>
    /\ HasDecodableChild(raw.payload, "text/html")
    /\ HasDecodableChild(raw.payload, "text/plain")

\* C7: for a multipart/alternative payload whose immediate children include a
\* decodable text/html child and a decodable text/plain child, in either
\* order, the parsed message has body = the html text, mime_type = text/html,
\* and body_html and body_plain both set.
C7_AlternativePrefersHtml ==
    (HtmlAndPlainChildren /\ raw.payload.mimeType = "multipart/alternative") =>
        /\ parsed[1].body = FirstChildText(raw.payload, "text/html")
        /\ parsed[1].mime_type = "text/html"
        /\ parsed[1].body_html = FirstChildText(raw.payload, "text/html")
        /\ parsed[1].body_plain = FirstChildText(raw.payload, "text/plain")

C7_Witness ==
    /\ HtmlAndPlainChildren
    /\ raw.payload.mimeType = "multipart/alternative"
    /\ raw.payload.parts[1].mimeType = "text/plain"
    /\ parsed[1].body = "b"
    /\ parsed[1].body_plain = "a"
    /\ parsed[1].mime_type = "text/html"

\* C8: for a multipart payload that is not multipart/alternative whose
\* immediate children include a decodable text/html child and a decodable
\* text/plain child, in either order, the parsed message has body = the plain
\* text and mime_type = text/plain.
C8_OtherMultipartPrefersPlain ==
    (HtmlAndPlainChildren /\ raw.payload.mimeType \in MultipartTypes \ {"multipart/alternative"}) =>
        /\ parsed[1].body = FirstChildText(raw.payload, "text/plain")
        /\ parsed[1].mime_type = "text/plain"

\* C9: body, when present, is one of body_html, body_plain, the nested value
\* or the first-part fallback value, and mime_type matches the field body was
\* drawn from: text/html exactly when body was taken from body_html and
\* text/plain exactly when it was taken from body_plain.
C9_MimeTypeMatchesSource ==
    (mpc = "done" /\ parsed # <<>> /\ parsed[1].body # None) =>
        /\ parsed[1].body \in {parsed[1].body_html, parsed[1].body_plain,
                               _find_nested_body(raw.payload.parts),
                               _find_fallback_body(raw.payload.parts)}
        /\ (parsed[1].mime_type = "text/html" <=> bodySource = "body_html")
        /\ (parsed[1].mime_type = "text/plain" <=> bodySource = "body_plain")

\* The payload itself, or one of its immediate children, is a text part of
\* that type whose data cannot be decoded.
UndecodablePart(payload, type) ==
    \/ (payload.mimeType = type /\ Undecodable(payload.data))
    \/ (/\ IsMultipart(payload.mimeType)
        /\ \E i \in 1..Len(payload.parts) :
              payload.parts[i].mimeType = type /\ Undecodable(payload.parts[i].data))

\* What a representation must hold: for a multipart payload the text of its
\* first decodable child of that type, for a single part of that type its own
\* text, and None wherever nothing of that type decodes.
ExpectedField(payload, type) ==
    IF IsMultipart(payload.mimeType)
    THEN IF HasDecodableChild(payload, type) THEN FirstChildText(payload, type) ELSE None
    ELSE IF payload.mimeType = type /\ payload.data \in DOMAIN EncodedText
         THEN EncodedText[payload.data]
         ELSE IF payload.mimeType = type /\ payload.data = "====" THEN "" ELSE None

\* C10: a part whose body data cannot be decoded raises no failure and gives
\* no value to its representation: the record is returned (unless an
\* attachment child without partId makes the attachment walk fail), the
\* undecodable part contributes nothing, and each representation holds exactly
\* what its decodable parts supply.
C10_UndecodablePartIsAbsent ==
    (/\ mpc = "done"
     /\ \/ UndecodablePart(raw.payload, "text/plain")
        \/ UndecodablePart(raw.payload, "text/html")) =>
        /\ parsed = <<>> => AttachmentsRaise(raw.payload)
        /\ parsed # <<>> =>
              /\ parsed[1].body_plain = ExpectedField(raw.payload, "text/plain")
              /\ parsed[1].body_html = ExpectedField(raw.payload, "text/html")

C10_Witness ==
    /\ mpc = "done"
    /\ parsed # <<>>
    /\ IsMultipart(raw.payload.mimeType)
    /\ Len(raw.payload.parts) = 2
    /\ raw.payload.parts[1] = Leaf("text/plain", "_w==")
    /\ raw.payload.parts[2] = Leaf("text/html", "Yg==")
    /\ parsed[1].body_plain = None
    /\ parsed[1].body_html = "b"
    /\ parsed[1].body = "b"

\* C23: parsing is total on malformed payload trees: whatever part is
\* malformed or incomplete, from_api_response returns the record, with the id
\* and the body fields the rest of the message supplies.
C23_ParseIsTotal ==
    mpc = "done" =>
        /\ parsed # <<>>
        /\ parsed[1].id = raw.id
        /\ parsed[1].body_plain = ExpectedField(raw.payload, "text/plain")
        /\ parsed[1].body_html = ExpectedField(raw.payload, "text/html")

\* The text of the first immediate child of that type, None when there is no
\* such child or when that child has no decodable data.
FirstOfTypeText(payload, type) ==
    LET i == FirstIndex({k \in 1..Len(payload.parts) : payload.parts[k].mimeType = type})
    IN IF i # 0 /\ payload.parts[i].data \in DOMAIN EncodedText
       THEN EncodedText[payload.parts[i].data]
       ELSE None

\* C24 as stated: in a multipart payload body_html is what the first immediate
\* text/html child holds and body_plain what the first immediate text/plain
\* child holds, absent when that first child has no decodable data.
C24_FirstChildOfType_AsStated ==
    (mpc = "done" /\ parsed # <<>> /\ IsMultipart(raw.payload.mimeType)) =>
        /\ parsed[1].body_html = FirstOfTypeText(raw.payload, "text/html")
        /\ parsed[1].body_plain = FirstOfTypeText(raw.payload, "text/plain")

\* C24: in a multipart payload body_html is the text of the first immediate
\* text/html child that decodes to a non-empty text and body_plain the text of
\* the first such text/plain child, absent when no child of that type decodes;
\* each depends on the children of its own type only, and the children of
\* nested multipart parts supply neither.
C24_FirstDecodableChildOfType ==
    (mpc = "done" /\ parsed # <<>> /\ IsMultipart(raw.payload.mimeType)) =>
        /\ parsed[1].body_html = ExpectedField(raw.payload, "text/html")
        /\ parsed[1].body_plain = ExpectedField(raw.payload, "text/plain")

C24_Witness ==
    /\ mpc = "done"
    /\ parsed # <<>>
    /\ IsMultipart(raw.payload.mimeType)
    /\ Len(raw.payload.parts) = 2
    /\ raw.payload.parts[1] = Leaf("text/html", "_w==")
    /\ raw.payload.parts[2] = Leaf("text/html", "Yg==")
    /\ parsed[1].body_html = "b"
    /\ parsed[1].body_plain = None

RECURSIVE NestedSearch(_)
RECURSIVE SearchMultipartChildren(_, _)

\* The search of one multipart node: at this level the first decodable plain
\* child, else the first decodable html child, else what the search of its
\* multipart children finds.
NestedSearch(node) ==
    IF HasDecodableChild(node, "text/plain") THEN FirstChildText(node, "text/plain")
    ELSE IF HasDecodableChild(node, "text/html") THEN FirstChildText(node, "text/html")
    ELSE SearchMultipartChildren(node.parts, 1)

\* The multipart children from child i on, in child order: the first one whose
\* search finds a text wins.
SearchMultipartChildren(parts, i) ==
    IF i > Len(parts) THEN None
    ELSE IF IsMultipart(parts[i].mimeType) /\ NestedSearch(parts[i]) # None
         THEN NestedSearch(parts[i])
         ELSE SearchMultipartChildren(parts, i + 1)

\* The decoded data of the first child, None when there is no first child or
\* its data is missing or undecodable.
FirstChildDecoded(payload) ==
    IF Len(payload.parts) = 0 THEN None
    ELSE IF payload.parts[1].data \in DOMAIN EncodedText
         THEN EncodedText[payload.parts[1].data]
         ELSE IF payload.parts[1].data = "====" THEN "" ELSE None

NoUsableTextChild ==
    /\ mpc = "done"
    /\ parsed # <<>>
    /\ IsMultipart(raw.payload.mimeType)
    /\ ~HasDecodableChild(raw.payload, "text/html")
    /\ ~HasDecodableChild(raw.payload, "text/plain")

\* C25: when a multipart payload has no usable html and no usable plain
\* immediate child, body is what the search of its multipart children finds
\* (child order, first match wins, plain before html at every nested level);
\* when that finds nothing body is the decoded data of the first child, and
\* absent when that is unavailable too.
C25_NestedThenFallback ==
    NoUsableTextChild =>
        parsed[1].body =
            IF SearchMultipartChildren(raw.payload.parts, 1) # None
            THEN SearchMultipartChildren(raw.payload.parts, 1)
            ELSE FirstChildDecoded(raw.payload)

C25_Witness ==
    /\ NoUsableTextChild
    /\ Len(raw.payload.parts) = 2
    /\ raw.payload.parts[1] = Leaf("image/png", "Yw==")
    /\ raw.payload.parts[2].mimeType = "multipart/mixed"
    /\ Len(raw.payload.parts[2].parts) = 2
    /\ raw.payload.parts[2].parts[2] = Leaf("text/html", "ZA==")
    /\ parsed[1].body = "d"
    /\ bodySource = "nested"

\* The fallback of C25 is taken: nothing nested, body from the first child.
C25_FallbackWitness ==
    /\ NoUsableTextChild
    /\ Len(raw.payload.parts) = 1
    /\ raw.payload.parts[1] = Leaf("image/png", "Yw==")
    /\ parsed[1].body = "c"
    /\ bodySource = "fallback"

RECURSIVE NestedSearchType(_)
RECURSIVE SearchMultipartChildrenType(_, _)

\* The declared type of the text node NestedSearch takes its text from.
NestedSearchType(node) ==
    IF HasDecodableChild(node, "text/plain") THEN "text/plain"
    ELSE IF HasDecodableChild(node, "text/html") THEN "text/html"
    ELSE SearchMultipartChildrenType(node.parts, 1)

SearchMultipartChildrenType(parts, i) ==
    IF i > Len(parts) THEN None
    ELSE IF IsMultipart(parts[i].mimeType) /\ NestedSearch(parts[i]) # None
         THEN NestedSearchType(parts[i])
         ELSE SearchMultipartChildrenType(parts, i + 1)

\* C26: when body was obtained by the nested search, mime_type is the declared
\* type of the nested text node it was taken from; when it was obtained by the
\* first-child fallback, mime_type is the declared type of the first child,
\* and the parent payload's type only when the first child declares none.
C26_MimeTypeOfSourceNode ==
    (mpc = "done" /\ parsed # <<>> /\ Truthy(parsed[1].body)) =>
        /\ bodySource = "nested" =>
              parsed[1].mime_type = SearchMultipartChildrenType(raw.payload.parts, 1)
        /\ bodySource = "fallback" =>
              parsed[1].mime_type =
                  IF raw.payload.parts[1].mimeType # ""
                  THEN raw.payload.parts[1].mimeType
                  ELSE raw.payload.mimeType

\* The positions of the immediate children that expose an attachment reference.
AttachmentChildren(payload) ==
    {i \in 1..Len(payload.parts) : payload.parts[i].attachmentId # None}

\* The entry of the mapping a child stands for.
EntryOf(part) ==
    [mime_type |-> part.mimeType, attachment_id |-> part.attachmentId,
     part_id |-> part.partId]

C27_NestedWitness ==
    /\ mpc = "done"
    /\ parsed # <<>>
    /\ Len(raw.payload.parts) = 2
    /\ raw.payload.parts[1] = Part("application/pdf", None, "att-1", "0", <<>>)
    /\ raw.payload.parts[2].parts = <<Part("application/pdf", None, "att-3", "2", <<>>)>>
    /\ DOMAIN parsed[1].attachments = {"0"}

(***************************************************************************)
(* Claims about the message assembler                                      *)
(***************************************************************************)

\* The positions of the headers whose name is the given one in some letter case.
Occurrences(headers, name) ==
    {i \in 1..Len(headers) : LowerName(headers[i].name) = name}

\* What a header carries: its value, the empty string when it has none.
ValueOf(header) == IF header.value = None THEN "" ELSE header.value

\* C13: the header names subject, from, to, cc, bcc, message-id, in-reply-to,
\* references and delivered-to are matched whatever their letter case; when
\* such a name occurs more than once the value of its first occurrence is the
\* one stored; a header that does not occur leaves its field unset.
C13_HeaderMapping ==
    (mpc = "done" /\ parsed # <<>>) =>
        \A name \in DOMAIN header_mapping :
            parsed[1][header_mapping[name]] =
                IF Occurrences(raw.headers, name) = {} THEN None
                ELSE ValueOf(raw.headers[FirstIndex(Occurrences(raw.headers, name))])

\* C14: from_api_response returns None when the raw structure has neither an
\* id nor a payload, and a record when at least one of them is present.
C14_AbsentWithoutIdAndPayload ==
    mpc = "done" =>
        (parsed = <<>> <=> (raw.id = None /\ raw.payload = NoPayload))

(***************************************************************************)
(* Claims about the reply builder                                          *)
(***************************************************************************)

\* The MIME message of the one API call create_reply made.
SentMessage == apiCalls[1].message_body.raw.base64url

\* The text starts with "re:" in some letter case.
StartsWithReAnyCase(text) ==
    /\ Len(text) >= 3
    /\ text[1] \in {"r", "R"}
    /\ text[2] \in {"e", "E"}
    /\ text[3] = ":"

\* C15: the reply subject is the original subject unchanged when that already
\* starts with "re:" in any letter case, and "Re: " followed by the original
\* subject otherwise; the rule applied to its own output adds no second
\* prefix.
C15_ReplySubject ==
    (rpc = "done" /\ apiCalls # <<>>) =>
        LET subject == OrEmpty(replyIn.original_message.subject) IN
        /\ SentMessage.subject =
               IF StartsWithReAnyCase(subject) THEN subject
               ELSE <<"R", "e", ":", " ">> \o subject
        /\ ReplySubject(<<SentMessage.subject>>) = SentMessage.subject

C15_Witness ==
    /\ rpc = "done"
    /\ apiCalls # <<>>
    /\ replyIn.original_message.subject = <<<<"R", "E", ":">>>>
    /\ SentMessage.subject = <<"R", "E", ":">>

RECURSIVE SplitLines(_)

\* The lines of a text, split at every newline.
SplitLines(text) ==
    LET breaks == {i \in 1..Len(text) : text[i] = "\n"} IN
    IF breaks = {} THEN <<text>>
    ELSE <<SubSeq(text, 1, FirstIndex(breaks) - 1)>>
         \o SplitLines(SubSeq(text, FirstIndex(breaks) + 1, Len(text)))

RECURSIVE QuotedBlock(_)

\* Every line prefixed by "> ", the lines joined by newlines.
QuotedBlock(lines) ==
    IF Len(lines) = 1 THEN <<"> ">> \o lines[1]
    ELSE <<"> ">> \o lines[1] \o <<"\n">> \o QuotedBlock(Tail(lines))

\* C16: the reply text is the new text, then an attribution line naming the
\* original date and sender, then the original body with every one of its
\* lines prefixed by "> "; when the original body is absent or empty the
\* quoted block is the placeholder, and the reply is built all the same.
C16_ReplyBodyLayout ==
    (rpc = "done" /\ Truthy(replyIn.original_message.from_email)) =>
        /\ Len(apiCalls) = 1
        /\ SentMessage.text =
               <<replyIn.reply_body, "\n", "\n">>
               \o <<"On ", DateOf(replyIn.original_message.internal_date), ", ",
                    replyIn.original_message.from_email, " wrote:", "\n">>
               \o (IF OrEmpty(replyIn.original_message.body) = <<>>
                   THEN <<"> ", "[No message body]">>
                   ELSE QuotedBlock(SplitLines(replyIn.original_message.body[1])))

C16_Witness ==
    /\ rpc = "done"
    /\ Len(apiCalls) = 1
    /\ replyIn.original_message.body = <<<<"a", "\n", "a">>>>
    /\ SubSeq(SentMessage.text, 10, 14) = <<"> ", "a", "\n", "> ", "a">>

\* C17 as stated: create_reply addresses the reply to the original's from
\* value; when the original has no from value the call fails with the
\* missing-sender failure raised to the caller and makes no API call.
C17_MissingSender_AsStated ==
    rpc = "done" =>
        IF Truthy(replyIn.original_message.from_email)
        THEN Len(apiCalls) = 1 /\ SentMessage.to = replyIn.original_message.from_email
        ELSE /\ apiCalls = <<>>
             /\ replyRaised = "Could not determine original sender's address"

\* C17 amended: create_reply addresses the reply to the original's from
\* value; when the original has no from value (None or empty) it makes no API
\* call, logs the missing-sender error and returns None; nothing is raised.
C17_MissingSender ==
    rpc = "done" =>
        IF Truthy(replyIn.original_message.from_email)
        THEN Len(apiCalls) = 1 /\ SentMessage.to = replyIn.original_message.from_email
        ELSE /\ apiCalls = <<>>
             /\ replyResult = <<>>
             /\ replyLog = "Could not determine original sender's address"
             /\ replyRaised = None

C17_Witness ==
    /\ rpc = "done"
    /\ replyIn.original_message.from_email = ""
    /\ apiCalls = <<>>
    /\ replyResult = <<>>
    /\ replyLog = "Could not determine original sender's address"

\* C18: the send flag selects only the call: send=true makes exactly one
\* messages.send call and no drafts.create call, send=false exactly one
\* drafts.create call and no messages.send call; either way the message
\* payload is the same function of the other arguments, with the original's
\* thread id and In-Reply-To and References equal to the original's id.
C18_SendFlagSelectsCall ==
    (rpc = "done" /\ Truthy(replyIn.original_message.from_email)) =>
        /\ Len(apiCalls) = 1
        /\ apiCalls[1].api = IF replyIn.send THEN "users.messages.send"
                             ELSE "users.drafts.create"
        /\ apiCalls[1].message_body =
               message_body(replyIn.original_message, replyIn.reply_body, replyIn.cc)
        /\ apiCalls[1].message_body.threadId = replyIn.original_message.thread_id
        /\ SentMessage.in_reply_to = replyIn.original_message.id
        /\ SentMessage.references = replyIn.original_message.id

C18_Witness ==
    /\ rpc = "done"
    /\ replyIn.send
    /\ Len(apiCalls) = 1
    /\ apiCalls[1].api = "users.messages.send"
    /\ apiCalls[1].message_body.threadId = "t1"
    /\ SentMessage.in_reply_to = "m1"

====
